---- MODULE Spec2Model ----
(***************************************************************************)
(* A model of ipa_rename.py: the name formatter format_name, the archive   *)
(* metadata reader ipa_readplist, the property display print_plist and the *)
(* command-line loop that drives them.                                     *)
(*                                                                         *)
(* Python strings are sequences of one-character strings.  A property-list *)
(* value is a record [kind, text]: kind is "str" for a Python str and      *)
(* "int" / "bool" for the other scalar types plistlib produces; text is    *)
(* the value's text.  A property list (dict) is a function from key        *)
(* strings to such values.                                                 *)
(***************************************************************************)
EXTENDS Integers, Sequences, FiniteSets, TLC

VARIABLES
    fmt, plist, empty, res,                     \* format_name: arguments, result
    argv, i, frm, key, dry, pc, fs, out, events \* MAIN: sys.argv[1:], loop state, effects

fvars == <<fmt, plist, empty, res>>
mvars == <<argv, i, frm, key, dry, pc, fs, out, events>>
vars == <<fmt, plist, empty, res, argv, i, frm, key, dry, pc, fs, out, events>>

-----------------------------------------------------------------------------
(* Bounds of the model *)

\* longest format spec drawn exhaustively over FmtAlphabet
MaxFmtLen == 5
\* most pieces of a format spec assembled from FmtPieces
MaxPieces == 2
\* most command-line arguments after the program name
MaxArgs == 3

-----------------------------------------------------------------------------
(* Python values *)

Str(s) == [kind |-> "str", text |-> s]
Num(s) == [kind |-> "int", text |-> s]
None == [kind |-> "none", text |-> <<>>]

Range(s) == {s[k] : k \in DOMAIN s}

Upper == {"A","B","C","D","E","F","G","H","I","J","K","L","M",
          "N","O","P","Q","R","S","T","U","V","W","X","Y","Z"}
Lower == {"a","b","c","d","e","f","g","h","i","j","k","l","m",
          "n","o","p","q","r","s","t","u","v","w","x","y","z"}

\* the character class [|a-zA-Z] of the token pattern
TokenChars == {"|"} \cup Lower \cup Upper

-----------------------------------------------------------------------------
(* str methods *)

\* t occurs in s at index k (1-based)
OccursAt(s, t, k) ==
    /\ k >= 1
    /\ k + Len(t) - 1 <= Len(s)
    /\ \A j \in 1..Len(t) : s[k + j - 1] = t[j]

\* str.find, 1-based: index of the first occurrence of t in s, 0 for none
Find(s, t) ==
    LET hits == {k \in 1..(Len(s) - Len(t) + 1) :
                    (t = <<>> \/ s[k] = t[1]) /\ OccursAt(s, t, k)} IN
    IF hits = {} THEN 0 ELSE CHOOSE k \in hits : \A j \in hits : k <= j

StartsWith(s, t) == OccursAt(s, t, 1)
EndsWith(s, t) == Len(t) <= Len(s) /\ OccursAt(s, t, Len(s) - Len(t) + 1)
Contains(s, t) == Find(s, t) # 0

\* s.replace(t, v, 1)
Replace1(s, t, v) ==
    LET p == Find(s, t) IN
    IF p = 0 THEN s
    ELSE SubSeq(s, 1, p - 1) \o v \o SubSeq(s, p + Len(t), Len(s))

\* s.replace('', v): v before every character and at the end
RECURSIVE Interleave(_, _)
Interleave(s, v) ==
    IF s = <<>> THEN v ELSE v \o <<Head(s)>> \o Interleave(Tail(s), v)

\* s.replace(t, v): every non-overlapping occurrence, left to right
RECURSIVE ReplaceAll(_, _, _)
ReplaceAll(s, t, v) ==
    IF t = <<>> THEN Interleave(s, v)
    ELSE LET p == Find(s, t) IN
         IF p = 0 THEN s
         ELSE SubSeq(s, 1, p - 1) \o v
                \o ReplaceAll(SubSeq(s, p + Len(t), Len(s)), t, v)

\* s.split(c) for a one-character separator c
RECURSIVE Split(_, _)
Split(s, c) ==
    LET p == Find(s, <<c>>) IN
    IF p = 0 THEN <<s>>
    ELSE <<SubSeq(s, 1, p - 1)>> \o Split(SubSeq(s, p + 1, Len(s)), c)

\* dict.get(k, default)
Get(d, k, default) == IF k \in DOMAIN d THEN d[k] ELSE default

-----------------------------------------------------------------------------
(* format_name *)

\* last index of the run of TokenChars that starts at index j (j - 1: no run)
RECURSIVE RunEnd(_, _)
RunEnd(s, j) ==
    IF j <= Len(s) /\ s[j] \in TokenChars THEN RunEnd(s, j + 1) ELSE j - 1

\* the pattern with * for +: a marker and one uppercase letter is enough
TokenAtStar(s, k) ==
    IF k + 1 <= Len(s) /\ s[k] = "%" /\ s[k + 1] \in Upper
    THEN RunEnd(s, k + 2)
    ELSE 0

\* a match of  %[A-Z][|a-zA-Z]+  starting at index k: its last index, else 0
TokenAt(s, k) ==
    IF k + 2 <= Len(s) /\ s[k] = "%" /\ s[k + 1] \in Upper /\ s[k + 2] \in TokenChars
    THEN RunEnd(s, k + 2)
    ELSE 0

\* re.findall: the non-overlapping matches, scanning from index k
RECURSIVE FindAllFrom(_, _)
FindAllFrom(s, k) ==
    IF k > Len(s) THEN <<>>
    ELSE LET e == TokenAt(s, k) IN
         IF e # 0 THEN <<SubSeq(s, k, e)>> \o FindAllFrom(s, e + 1)
         ELSE FindAllFrom(s, k + 1)

FindAll(s) == FindAllFrom(s, 1)

\* the loop over the alternatives without its break: the last value stands
AlternativesNoBreak(d, subtokens, e) == Get(d, subtokens[Len(subtokens)], e)

\* the loop over the alternatives of a token: the first value that differs
\* from empty, else the value of the last alternative
RECURSIVE Alternatives(_, _, _)
Alternatives(d, subtokens, e) ==
    LET val == Get(d, Head(subtokens), e) IN
    IF val # e \/ Len(subtokens) = 1 THEN val
    ELSE Alternatives(d, Tail(subtokens), e)

\* the value a token is replaced by
TokenValue(d, token, e) ==
    IF "|" \in Range(token)
    THEN Alternatives(d, Split(Tail(token), "|"), e)
    ELSE Get(d, Tail(token), e)

\* the loop over the tokens: str.replace raises TypeError for a value that
\* is not a str
RECURSIVE Substitute(_, _, _, _)
Substitute(name, tokens, d, e) ==
    IF tokens = <<>> THEN [exc |-> "none", name |-> name]
    ELSE LET val == TokenValue(d, Head(tokens), e) IN
         IF val.kind # "str" THEN [exc |-> "TypeError", name |-> <<>>]
         ELSE Substitute(Replace1(name, Head(tokens), val.text), Tail(tokens), d, e)

format_name(d, format, e, space, ext) ==
    LET r == Substitute(format, FindAll(format), d, Str(e)) IN
    IF r.exc # "none" THEN r
    ELSE [exc |-> "none", name |-> ReplaceAll(r.name, <<" ">>, space) \o ext]

\* the defaults of format_name's parameters
DefaultEmpty == <<>>
DefaultSpace == <<"_">>
DefaultExt == <<".", "i", "p", "a">>

-----------------------------------------------------------------------------
(* Constants of the program *)

CFBundleName == <<"C", "F", "B", "u", "n", "d", "l", "e", "N", "a", "m", "e">>
CFBundleDisplayName == <<"C", "F", "B", "u", "n", "d", "l", "e", "D", "i", "s", "p", "l", "a", "y", "N", "a", "m", "e">>
CFBundleVersion == <<"C", "F", "B", "u", "n", "d", "l", "e", "V", "e", "r", "s", "i", "o", "n">>
MinimumOSVersion == <<"M", "i", "n", "i", "m", "u", "m", "O", "S", "V", "e", "r", "s", "i", "o", "n">>
DTPlatformVersion == <<"D", "T", "P", "l", "a", "t", "f", "o", "r", "m", "V", "e", "r", "s", "i", "o", "n">>

\* '%CFBundleName|CFBundleDisplayName-v%CFBundleVersion-ios%MinimumOSVersion'
FORMAT ==
    <<"%">> \o CFBundleName \o <<"|">> \o CFBundleDisplayName
        \o <<"-", "v", "%">> \o CFBundleVersion
        \o <<"-", "i", "o", "s", "%">> \o MinimumOSVersion

MAJOR ==
    MinimumOSVersion \o <<" ">> \o DTPlatformVersion \o <<" ">> \o CFBundleVersion
        \o <<" ">> \o CFBundleDisplayName \o <<" ">> \o CFBundleName

INFO == <<"/", "I", "n", "f", "o", ".", "p", "l", "i", "s", "t">>

-----------------------------------------------------------------------------
(* format_name applied to bounded inputs *)

\* a dict from a function that maps the absent keys to None
Dict(f) == [k \in {kk \in DOMAIN f : f[kk] # None} |-> f[k]]

\* format specs over a small alphabet, exhaustively
FmtAlphabet == {"%", "A", "b", "|", "1", " "}
ShortFormats == UNION {[1..n -> FmtAlphabet] : n \in 0..MaxFmtLen}
ShortPlists ==
    { (<<"A", "b">> :> Str(<<"1">>)) @@ (<<"A">> :> Str(<<" ", "b">>)),
      (<<"b">> :> Str(<<"A", " ">>)) }

\* format specs assembled from tokens and literals over the real keys
FmtPieces ==
    { <<"%">> \o CFBundleName,
      <<"%">> \o CFBundleVersion,
      <<"%">> \o CFBundleName \o <<"|">> \o CFBundleDisplayName,
      <<"-", "v">>,
      <<" ">> }
RECURSIVE PieceFormats(_)
PieceFormats(n) ==
    IF n = 0 THEN {<<>>}
    ELSE PieceFormats(n - 1) \cup {f \o p : f \in PieceFormats(n - 1), p \in FmtPieces}
LongFormats == PieceFormats(MaxPieces) \cup {FORMAT}

FooApp == <<"F", "o", "o", " ", "A", "p", "p">>
NameValues == {None, Str(<<>>), Str(FooApp), Str(<<"%">> \o CFBundleVersion), Str(<<"-">>)}
DisplayValues == {None, Str(<<>>), Str(<<"F", "o", "o">>)}
VersionValues == {None, Str(<<"2", ".", "1">>), Num(<<"2">>)}
OSValues == {Str(<<"1", "4", ".", "0">>)}
LongPlists ==
    { Dict((CFBundleName :> n) @@ (CFBundleDisplayName :> d)
            @@ (CFBundleVersion :> v) @@ (MinimumOSVersion :> o)) :
        n \in NameValues, d \in DisplayValues, v \in VersionValues, o \in OSValues }

Empties == {<<>>, <<"-">>}

Unset == [exc |-> "unset", name |-> <<>>, tokens |-> <<>>]

\* the MAIN variables while only format_name is exercised
MainIdle ==
    /\ argv = <<>> /\ i = 1 /\ frm = FORMAT /\ key = None /\ dry = FALSE
    /\ pc = "idle" /\ fs = <<>> /\ out = <<>> /\ events = <<>>

InitFormat ==
    /\ \/ fmt \in ShortFormats /\ plist \in ShortPlists /\ empty = DefaultEmpty
       \/ fmt \in LongFormats /\ plist \in LongPlists /\ empty \in Empties
    /\ res = Unset
    /\ MainIdle

\* one call format_name(plist, fmt, empty); tokens is the list re.findall gave
FormatCall ==
    /\ res = Unset
    /\ LET r == format_name(plist, fmt, empty, DefaultSpace, DefaultExt) IN
       res' = [exc |-> r.exc, name |-> r.name, tokens |-> FindAll(fmt)]
    /\ UNCHANGED <<fmt, plist, empty>>
    /\ UNCHANGED mvars

NextFormat == FormatCall

SpecFormat == InitFormat /\ [][NextFormat]_vars

-----------------------------------------------------------------------------
(* error, ipa_readplist, print_plist *)

\* the message templates, by what each says
ERR ==
    [c \in 2..6 |->
        CASE c = 2 -> "ZIP error"
          [] c = 3 -> "not found"
          [] c = 4 -> "not valid IPA file"
          [] c = 5 -> "returns empty property list"
          [] c = 6 -> "ERR"]

\* one line printed by error(code, par)
error(code, par) == [code |-> code, msg |-> ERR[code], text |-> par]

\* one line printed by print
Line(text) == [code |-> 0, msg |-> "", text |-> text]

\* an archive entry: its name, whether its CRC and header check out, and
\* what plistlib.loads makes of its bytes
Entry(name, sound, data) == [name |-> name, sound |-> sound, data |-> data]
DictData(d) == [dec |-> "dict", d |-> d]
InvalidData == [dec |-> "invalid", d |-> <<>>]

\* ZipFile.testzip: the name of the first bad entry, else nothing
TestZip(entries) ==
    IF \E n \in DOMAIN entries : ~entries[n].sound
    THEN entries[CHOOSE n \in DOMAIN entries :
                    ~entries[n].sound /\ \A m \in 1..(n - 1) : entries[m].sound].name
    ELSE <<>>

\* the scan that takes the last entry that ends with the suffix
SelectEntryLast(entries, suffix) ==
    IF \E n \in DOMAIN entries : EndsWith(entries[n].name, suffix)
    THEN CHOOSE n \in DOMAIN entries :
            /\ EndsWith(entries[n].name, suffix)
            /\ \A m \in (n + 1)..Len(entries) : ~EndsWith(entries[m].name, suffix)
    ELSE 0

\* the for/else scan of zip.infolist(): the index of the first entry whose
\* name ends with the suffix, 0 when the loop ends without a break
SelectEntry(entries, suffix) ==
    IF \E n \in DOMAIN entries : EndsWith(entries[n].name, suffix)
    THEN CHOOSE n \in DOMAIN entries :
            /\ EndsWith(entries[n].name, suffix)
            /\ \A m \in 1..(n - 1) : ~EndsWith(entries[m].name, suffix)
    ELSE 0

Ret(root, lines, err, entry) ==
    [root |-> root, lines |-> lines, err |-> err, entry |-> entry]

\* ipa_readplist(ipa, suffix) on the file found at ipa.  root is the value
\* returned; lines are the lines printed; err names how the read ended
\* ("DecodeError": plistlib.loads raised, which no except clause catches)
ipa_readplist(file, ipa, suffix) ==
    IF file.kind \in {"missing", "dir"}
    THEN Ret(None, <<error(6, file.strerror \o <<":", " ">> \o ipa)>>, "OSError", 0)
    ELSE IF file.kind = "notzip"
    THEN Ret(None, <<error(4, ipa)>>, "BadZipFile", 0)
    ELSE IF TestZip(file.entries) # <<>>
    THEN Ret(None, <<error(2, TestZip(file.entries))>>, "ZipError", 0)
    ELSE IF SelectEntry(file.entries, suffix) = 0
    THEN Ret(None, <<error(3, INFO)>>, "NotFound", 0)
    ELSE LET n == SelectEntry(file.entries, suffix) IN
         IF file.entries[n].data.dec = "invalid"
         THEN Ret(None, <<>>, "DecodeError", n)
         ELSE Ret(DictData(file.entries[n].data.d), <<>>, "none", n)

\* the keys of a dict in the order the property list holds them
KeyOrder == <<CFBundleName, CFBundleDisplayName, CFBundleVersion, MinimumOSVersion>>
Keys(d) == SelectSeq(KeyOrder, LAMBDA k : k \in DOMAIN d)

All == <<"a", "l", "l">>
Major == <<"m", "a", "j", "o", "r">>

PropLine(d, k) == Line(k \o <<":", " ">> \o Get(d, k, Str(<<>>)).text)

\* print_plist(plist, match): the lines printed
print_plist(d, match) ==
    IF " " \in Range(match)
    THEN [n \in DOMAIN Split(match, " ") |-> PropLine(d, Split(match, " ")[n])]
    ELSE LET hits == SelectSeq(Keys(d), LAMBDA k : match = All \/ Contains(k, match))
         IN  [n \in DOMAIN hits |-> PropLine(d, hits[n])]

-----------------------------------------------------------------------------
(* MAIN: the files of the run and the loop over sys.argv[1:] *)

OptN == <<"-", "n">>
OptF == <<"-", "f">>
OptK == <<"-", "k">>

PathA == <<"a", "/", "a">>
PathT == <<"t">>
PathE == <<"p", "/", "e">>
PathU == <<"u">>
PathX == <<"x">>
PathC == <<"c">>
PathN == <<"n">>
PathD == <<"d", "/">>

Plist1 ==
    (CFBundleName :> Str(FooApp)) @@ (CFBundleVersion :> Str(<<"2", ".", "1">>))
        @@ (MinimumOSVersion :> Str(<<"1", "4", ".", "0">>))
Plist2 == (CFBundleName :> Str(<<"F", "w">>)) @@ (CFBundleVersion :> Str(<<"1">>))
PlistT == (CFBundleName :> Str(<<"T">>)) @@ (CFBundleVersion :> Num(<<"2">>))

Zip(entries) == [kind |-> "zip", entries |-> entries, strerror |-> <<>>]
NoFile(kind, strerror) == [kind |-> kind, entries |-> <<>>, strerror |-> strerror]

\* the files of the run, by content
Archives ==
    [ good    |-> Zip(<< Entry(<<"A", "/", "x">>, TRUE, InvalidData),
                         Entry(<<"A">> \o INFO, TRUE, DictData(Plist1)),
                         Entry(<<"A", "/", "F">> \o INFO, TRUE, DictData(Plist2)) >>),
      typed   |-> Zip(<< Entry(<<"A">> \o INFO, TRUE, DictData(PlistT)) >>),
      nokeys  |-> Zip(<< Entry(<<"A">> \o INFO, TRUE, DictData(<<>>)) >>),
      garbled |-> Zip(<< Entry(<<"A">> \o INFO, TRUE, InvalidData) >>),
      noinfo  |-> Zip(<< Entry(<<"A">> \o Tail(INFO), TRUE, DictData(Plist1)) >>),
      badcrc  |-> Zip(<< Entry(<<"A", "/", "x">>, FALSE, InvalidData) >>),
      text    |-> NoFile("notzip", <<>>),
      dir     |-> NoFile("dir", <<"EISDIR">>) ]

Missing == NoFile("missing", <<"ENOENT">>)

\* the file system before the run: path -> content
InitialFs ==
    (PathA :> "good") @@ (PathT :> "typed") @@ (PathE :> "nokeys")
        @@ (PathU :> "garbled") @@ (PathX :> "noinfo") @@ (PathC :> "badcrc")
        @@ (PathN :> "text") @@ (PathD :> "dir")

ContentAt(path) == IF path \in DOMAIN fs THEN fs[path] ELSE "missing"
FileAt(path) == IF path \in DOMAIN fs THEN Archives[fs[path]] ELSE Missing

ArgUniverse == {OptN, OptF, OptK, Major} \cup DOMAIN InitialFs
ArgLists == UNION {[1..n -> ArgUniverse] : n \in 1..MaxArgs}

\* os.path.basename
RECURSIVE basename(_)
basename(path) ==
    IF path = <<>> \/ path[Len(path)] = "/" THEN <<>>
    ELSE basename(SubSeq(path, 1, Len(path) - 1)) \o <<path[Len(path)]>>

\* ipa.replace(os.path.basename(ipa), format_name(plist, frm))
NewName(ipa, name) == ReplaceAll(ipa, basename(ipa), name)

FormatIdle ==
    /\ fmt = <<>> /\ plist = <<>> /\ empty = DefaultEmpty /\ res = Unset

Init ==
    /\ argv \in ArgLists
    /\ i = 1
    /\ frm = FORMAT /\ key = None /\ dry = FALSE
    /\ pc = "run"
    /\ fs = InitialFs
    /\ out = <<>>
    /\ events = <<>>
    /\ FormatIdle

par == argv[i]
Running == pc = "run" /\ i <= Len(argv)
IsDryOpt == par = OptN
IsFormatOpt == ~IsDryOpt /\ StartsWith(par, OptF)
IsKeyOpt == ~IsDryOpt /\ ~IsFormatOpt /\ StartsWith(par, OptK)
IsFile == ~IsDryOpt /\ ~IsFormatOpt /\ ~IsKeyOpt

\* a call made while argv[i] is processed
Event(op, err, entry, root, name, dst) ==
    [arg |-> i, op |-> op, path |-> par, file |-> ContentAt(par), err |-> err,
     entry |-> entry, root |-> root, name |-> name, dst |-> dst, dry |-> dry]

\* lines printed while argv[i] is processed
Printed(lines) == [n \in DOMAIN lines |-> [arg |-> i] @@ lines[n]]

Read == ipa_readplist(FileAt(par), par, INFO)
ReadEvent(rd) == Event("read", rd.err, rd.entry, rd.root, <<>>, <<>>)
Formatted(rd) == format_name(rd.root.d, frm, DefaultEmpty, DefaultSpace, DefaultExt)
Displaying == key.kind = "str" /\ key.text # <<>>
Arrow == <<" ", "-", ">", " ">>

\* if par == '-n'
DryRunOption ==
    /\ Running /\ IsDryOpt
    /\ dry' = TRUE
    /\ i' = i + 1
    /\ UNCHANGED <<argv, frm, key, pc, fs, out, events>>
    /\ UNCHANGED fvars

\* if par.startswith('-f'): frm = next(it)
FormatOption ==
    /\ Running /\ IsFormatOpt /\ i < Len(argv)
    /\ frm' = argv[i + 1]
    /\ i' = i + 2
    /\ UNCHANGED <<argv, key, dry, pc, fs, out, events>>
    /\ UNCHANGED fvars

\* if par.startswith('-k'): key = next(it)
KeyOption ==
    /\ Running /\ IsKeyOpt /\ i < Len(argv)
    /\ key' = Str(argv[i + 1])
    /\ i' = i + 2
    /\ UNCHANGED <<argv, frm, dry, pc, fs, out, events>>
    /\ UNCHANGED fvars

\* next(it) on the exhausted iterator: StopIteration ends the run
OptionWithoutValue ==
    /\ Running /\ (IsFormatOpt \/ IsKeyOpt) /\ i = Len(argv)
    /\ pc' = "crashed"
    /\ events' = Append(events, Event("raise", "StopIteration", 0, None, <<>>, <<>>))
    /\ UNCHANGED <<argv, i, frm, key, dry, fs, out>>
    /\ UNCHANGED fvars

\* ipa_readplist returned None: error(5, ipa); continue
ReadFailed ==
    /\ Running /\ IsFile
    /\ LET rd == Read IN
       /\ rd.err # "DecodeError"
       /\ rd.root = None
       /\ out' = out \o Printed(rd.lines \o <<error(5, par)>>)
       /\ events' = Append(events, ReadEvent(rd))
    /\ i' = i + 1
    /\ UNCHANGED <<argv, frm, key, dry, pc, fs>>
    /\ UNCHANGED fvars

\* plistlib.loads raised inside ipa_readplist: the exception ends the run
ReadRaised ==
    /\ Running /\ IsFile
    /\ LET rd == Read IN
       /\ rd.err = "DecodeError"
       /\ out' = out \o Printed(rd.lines)
       /\ events' = Append(events, ReadEvent(rd))
    /\ pc' = "crashed"
    /\ UNCHANGED <<argv, i, frm, key, dry, fs>>
    /\ UNCHANGED fvars

\* if key == 'major': print_plist(plist, MAJOR) / if key: print_plist(plist, key)
Display ==
    /\ Running /\ IsFile
    /\ Displaying
    /\ LET rd == Read IN
       /\ rd.err # "DecodeError"
       /\ rd.root # None
       /\ out' = out \o Printed(print_plist(rd.root.d,
                                            IF key.text = Major THEN MAJOR ELSE key.text))
       /\ events' = events \o <<ReadEvent(rd), Event("display", "none", 0, None, <<>>, <<>>)>>
    /\ i' = i + 1
    /\ UNCHANGED <<argv, frm, key, dry, pc, fs>>
    /\ UNCHANGED fvars

\* format_name raised TypeError: the exception ends the run
FormatRaised ==
    /\ Running /\ IsFile
    /\ ~Displaying
    /\ LET rd == Read IN
       /\ rd.err # "DecodeError"
       /\ rd.root # None
       /\ LET fn == Formatted(rd) IN
          /\ fn.exc # "none"
          /\ events' = events \o <<ReadEvent(rd), Event("format", fn.exc, 0, None, <<>>, <<>>)>>
    /\ pc' = "crashed"
    /\ UNCHANGED <<argv, i, frm, key, dry, fs, out>>
    /\ UNCHANGED fvars

\* if dry: print(); continue
DryRun ==
    /\ Running /\ IsFile
    /\ ~Displaying
    /\ dry
    /\ LET rd == Read IN
       /\ rd.err # "DecodeError"
       /\ rd.root # None
       /\ LET fn == Formatted(rd) IN
          /\ fn.exc = "none"
          /\ out' = out \o Printed(<<Line(par \o Arrow \o NewName(par, fn.name))>>)
          /\ events' = events \o <<ReadEvent(rd), Event("format", "none", 0, None, fn.name, <<>>)>>
    /\ i' = i + 1
    /\ UNCHANGED <<argv, frm, key, dry, pc, fs>>
    /\ UNCHANGED fvars

RenameEvents(rd, name, newname, err) ==
    << ReadEvent(rd),
       Event("format", "none", 0, None, name, <<>>),
       Event("rename", err, 0, None, name, newname) >>

\* os.rename(ipa, newname) returned: the file is now at newname; print('OK')
Renamed(rd, name, newname) ==
    /\ fs' = [p \in (DOMAIN fs \ {par}) \cup {newname} |->
                 IF p = newname THEN fs[par] ELSE fs[p]]
    /\ out' = out \o Printed(<<Line(par \o Arrow \o newname), Line(<<"O", "K">>)>>)
    /\ events' = events \o RenameEvents(rd, name, newname, "none")

\* os.rename(ipa, newname) raised OSError: error(6, ...)
RenameFailed(rd, name, newname) ==
    /\ fs' = fs
    /\ out' = out \o Printed(<<Line(par \o Arrow \o newname),
                               error(6, <<"EACCES", ":", " ">> \o par)>>)
    /\ events' = events \o RenameEvents(rd, name, newname, "OSError")

\* newname = ...; print(...); try: os.rename(ipa, newname) ... except OSError
Rename ==
    /\ Running /\ IsFile
    /\ ~Displaying
    /\ ~dry
    /\ LET rd == Read IN
       /\ rd.err # "DecodeError"
       /\ rd.root # None
       /\ LET fn == Formatted(rd) IN
          /\ fn.exc = "none"
          /\ LET newname == NewName(par, fn.name) IN
             \/ Renamed(rd, fn.name, newname)
             \/ RenameFailed(rd, fn.name, newname)
    /\ i' = i + 1
    /\ UNCHANGED <<argv, frm, key, dry, pc>>
    /\ UNCHANGED fvars

\* the loop is over
Exit ==
    /\ pc = "run" /\ i > Len(argv)
    /\ pc' = "done"
    /\ UNCHANGED <<argv, i, frm, key, dry, fs, out, events>>
    /\ UNCHANGED fvars

Next ==
    \/ DryRunOption
    \/ FormatOption
    \/ KeyOption
    \/ OptionWithoutValue
    \/ ReadFailed
    \/ ReadRaised
    \/ Display
    \/ FormatRaised
    \/ DryRun
    \/ Rename
    \/ Exit

Spec == Init /\ [][Next]_vars

-----------------------------------------------------------------------------
(* What the claims about format_name expect *)

Called == res # Unset

\* the value claimed for a token: a single token's mapping value; for a
\* fallback token the value of the first candidate that is present and not
\* the empty string, else the empty placeholder
RECURSIVE ClaimedCandidate(_, _, _)
ClaimedCandidate(d, cands, e) ==
    IF cands = <<>> THEN Str(e)
    ELSE IF Head(cands) \in DOMAIN d /\ d[Head(cands)].text # <<>>
         THEN d[Head(cands)]
         ELSE ClaimedCandidate(d, Tail(cands), e)

ClaimedValue(d, token, e) ==
    IF "|" \in Range(token)
    THEN ClaimedCandidate(d, Split(Tail(token), "|"), e)
    ELSE Get(d, Tail(token), Str(e))

\* the format spec with every token replaced at its own position
RECURSIVE ClaimedFrom(_, _, _, _)
ClaimedFrom(s, k, d, e) ==
    IF k > Len(s) THEN <<>>
    ELSE LET b == TokenAt(s, k) IN
         IF b # 0
         THEN ClaimedValue(d, SubSeq(s, k, b), e).text \o ClaimedFrom(s, b + 1, d, e)
         ELSE <<s[k]>> \o ClaimedFrom(s, k + 1, d, e)

ClaimedName(s, d, e) ==
    ReplaceAll(ClaimedFrom(s, 1, d, e), <<" ">>, DefaultSpace) \o DefaultExt

TokenNames(token) == Range(Split(Tail(token), "|"))

\* every token of the format spec is a single token naming a key of the
\* mapping with a string value
SingleResolvable(s, d) ==
    \A n \in DOMAIN FindAll(s) :
        LET token == FindAll(s)[n] IN
        /\ ~("|" \in Range(token))
        /\ Tail(token) \in DOMAIN d
        /\ d[Tail(token)].kind = "str"

\* the format spec is one fallback token whose candidates have string values
OneFallback(s, d) ==
    /\ FindAll(s) = <<s>>
    /\ "|" \in Range(s)
    /\ \A c \in TokenNames(s) : c \in DOMAIN d => d[c].kind = "str"

\* C1: with only single tokens that name keys of the mapping, the result is
\* the format spec with each token replaced at its own position by its
\* value, spaces replaced, the extension appended - whatever the values are
C1_PositionalSubstitution ==
    (Called /\ SingleResolvable(fmt, plist))
        => (res.exc = "none" /\ res.name = ClaimedName(fmt, plist, empty))

C9_NonStringValuesFormatted ==
    Called =>
        \A n \in DOMAIN res.tokens :
            LET val == TokenValue(plist, res.tokens[n], Str(empty)) IN
            val.kind # "str" => (res.exc = "none" /\ Contains(res.name, val.text))

\* the value of the first candidate that is present and differs from the
\* empty placeholder, else the placeholder
DifferingValue(d, cands, e) ==
    LET hits == {n \in DOMAIN cands : cands[n] \in DOMAIN d /\ d[cands[n]] # Str(e)} IN
    IF hits = {} THEN Str(e)
    ELSE d[cands[CHOOSE n \in hits : \A m \in hits : n <= m]]

IsTokenSpan(s, k, b, minTail) ==
    /\ s[k] = "%"
    /\ k + 1 <= b
    /\ s[k + 1] \in Upper
    /\ b - (k + 1) >= minTail
    /\ \A j \in (k + 2)..b : s[j] \in TokenChars
    /\ (b = Len(s) \/ s[b + 1] \notin TokenChars)

RECURSIVE SpansFrom(_, _, _)
SpansFrom(s, k, minTail) ==
    IF k > Len(s) THEN <<>>
    ELSE IF \E b \in k..Len(s) : IsTokenSpan(s, k, b, minTail)
         THEN <<SubSeq(s, k, CHOOSE b \in k..Len(s) : IsTokenSpan(s, k, b, minTail))>>
                \o SpansFrom(s, k + 1, minTail)
         ELSE SpansFrom(s, k + 1, minTail)

\* C10 as stated: the tokens are the maximal substrings made of the marker,
\* one uppercase letter and zero or more letters or separators
C10_TokensZeroOrMore ==
    Called => res.tokens = SpansFrom(fmt, 1, 0)

\* C10 as amended: the tokens are the maximal substrings made of the marker,
\* one uppercase letter and one or more letters or separators; a format
\* spec without such a substring is returned with nothing substituted
C10_TokensOneOrMore ==
    Called =>
        /\ res.tokens = SpansFrom(fmt, 1, 1)
        /\ (SpansFrom(fmt, 1, 1) = <<>> /\ res.exc = "none")
              => res.name = ReplaceAll(fmt, <<" ">>, DefaultSpace) \o DefaultExt

\* a marker with a single uppercase letter, before a digit and at the end
\* of the format spec, was left as literal text
C10_Witness ==
    /\ Called
    /\ fmt = <<"%", "A", "1", "%", "A">>
    /\ res.tokens = <<>>
    /\ res.name = fmt \o DefaultExt

-----------------------------------------------------------------------------
(* What the claims about the run expect *)

\* what each argument is, read off the command line alone
RECURSIVE RolesFrom(_, _)
RolesFrom(a, k) ==
    IF k > Len(a) THEN <<>>
    ELSE IF a[k] = OptN THEN <<"dry">> \o RolesFrom(a, k + 1)
    ELSE IF StartsWith(a[k], OptF) \/ StartsWith(a[k], OptK)
         THEN IF k = Len(a) THEN <<"option">>
              ELSE <<"option", "value">> \o RolesFrom(a, k + 2)
    ELSE <<"file">> \o RolesFrom(a, k + 1)

Roles == RolesFrom(argv, 1)
DryFlagGiven == \E j \in DOMAIN Roles : Roles[j] = "dry"

EventsOf(j, ops) == {n \in DOMAIN events : events[n].arg = j /\ events[n].op \in ops}
Diagnostics(j) == {n \in DOMAIN out : out[n].arg = j /\ out[n].code # 0}
PlainLines(j) == {n \in DOMAIN out : out[n].arg = j /\ out[n].code = 0}

ArchiveOf(content) == IF content = "missing" THEN Missing ELSE Archives[content]

\* os.path.dirname and os.path.join
RECURSIVE StripSlashes(_)
StripSlashes(s) ==
    IF s # <<>> /\ s[Len(s)] = "/" THEN StripSlashes(SubSeq(s, 1, Len(s) - 1)) ELSE s
Dirname(path) ==
    LET head == SubSeq(path, 1, Len(path) - Len(basename(path))) IN
    IF StripSlashes(head) = <<>> THEN head ELSE StripSlashes(head)
Join(a, b) ==
    IF StartsWith(b, <<"/">>) THEN b
    ELSE IF a = <<>> \/ a[Len(a)] = "/" THEN a \o b
    ELSE a \o <<"/">> \o b

\* C3: a file whose processing fails is reported and does not end the run:
\* the loop goes on to the arguments after it
C3_FailuresNonFatal ==
    \A n \in DOMAIN events :
        (events[n].op \in {"read", "rename"} /\ events[n].err # "none")
            => /\ Diagnostics(events[n].arg) # {}
               /\ ~(pc = "crashed" /\ i = events[n].arg)

\* C4: with -n anywhere on the command line, os.rename is never called
C4_DryRunNeverRenames ==
    DryFlagGiven => \A n \in DOMAIN events : events[n].op # "rename"

\* C5: a metadata entry that decodes to a mapping with no keys is reported
\* as an empty property list; format_name is not called and nothing is renamed
C5_EmptyMappingFails ==
    \A n \in DOMAIN events :
        (events[n].op = "read" /\ events[n].err = "none" /\ DOMAIN events[n].root.d = {})
            => /\ \E m \in Diagnostics(events[n].arg) : out[m].code = 5
               /\ EventsOf(events[n].arg, {"format", "rename"}) = {}

\* C6: the rename target is the source's directory joined with the name
\* format_name returned
C6_OnlyBaseNameReplaced ==
    \A n \in DOMAIN events :
        events[n].op = "rename"
            => events[n].dst = Join(Dirname(events[n].path), events[n].name)

\* what the diagnostic of each failure of the reader says
KindMessage ==
    [OSError |-> "ERR", BadZipFile |-> "not valid IPA file",
     ZipError |-> "ZIP error", NotFound |-> "not found"]

\* C7: a file the reader fails on gets exactly one diagnostic line, and
\* the line names the failure that happened
C7_OneDiagnosticPerFailure ==
    \A n \in DOMAIN events :
        (events[n].op = "read" /\ events[n].err \in DOMAIN KindMessage)
            => /\ Cardinality(Diagnostics(events[n].arg)) = 1
               /\ \A m \in Diagnostics(events[n].arg) : out[m].msg = KindMessage[events[n].err]

Matches(entries) == {m \in DOMAIN entries : EndsWith(entries[m].name, INFO)}
IsFirstMatch(entries, m) == m \in Matches(entries) /\ \A k \in Matches(entries) : m <= k

\* C8: when the reader fails for an archive, format_name is not called for
\* it, nothing of a mapping is displayed and nothing is renamed; an archive
\* with a bad entry fails the integrity check whether or not it holds the
\* metadata entry; a sound archive without an entry ending with the suffix
\* ends as not found; otherwise the entry read is the first in container
\* order that ends with the suffix
C8_ReaderFailureSkipsFile ==
    \A n \in DOMAIN events :
        events[n].op = "read" =>
            LET e == events[n]
                file == ArchiveOf(e.file)
                unsound == \E m \in DOMAIN file.entries : ~file.entries[m].sound
            IN  /\ e.err # "none"
                    => /\ EventsOf(e.arg, {"format", "display", "rename"}) = {}
                       /\ PlainLines(e.arg) = {}
                /\ (file.kind = "zip" /\ unsound) => e.err = "ZipError"
                /\ (file.kind = "zip" /\ ~unsound /\ Matches(file.entries) = {})
                    => e.err = "NotFound"
                /\ (file.kind = "zip" /\ ~unsound /\ Matches(file.entries) # {})
                    => /\ IsFirstMatch(file.entries, e.entry)
                       /\ e.err = "none" => e.root = DictData(file.entries[e.entry].data.d)

\* a run that met an archive without the metadata entry, went on, and read
\* the first of two metadata entries of another archive
C8_Witness ==
    /\ pc = "done"
    /\ \E n \in DOMAIN events :
          events[n].op = "read" /\ events[n].err = "NotFound" /\ i > events[n].arg
    /\ \E n \in DOMAIN events :
          /\ events[n].op = "read" /\ events[n].err = "none"
          /\ Cardinality(Matches(ArchiveOf(events[n].file).entries)) = 2
          /\ EventsOf(events[n].arg, {"format"}) # {}

====
